---- MODULE Spec2Model ----
(***************************************************************************)
(* aws-kitchensink: the SNS event helpers (packages/sns/lib/sns.js) and    *)
(* the S3 helpers (packages/s3/lib/s3.js and its other revisions).         *)
(*                                                                         *)
(* A JavaScript string that holds JSON text is modelled as the sequence of *)
(* its lexical tokens; JSON.parse and JSON.stringify are the recursive     *)
(* operators JSONParse and JSONStringify over such sequences.              *)
(***************************************************************************)
EXTENDS Integers, Sequences, FiniteSets, TLC

\* Bounds of the model.
MaxRecords == 2
MaxRequests == 3

\* MaxKeys: 1000 in the listObjectsV2 parameters.
MaxKeys == 1000

VARIABLES
    snsOp,        \* the SNS method the caller invoked ("none" before a call)
    snsEvent,     \* its argument
    snsPc,        \* where the call stands: idle, validate, map, first, done
    bodies,       \* the array Records.map(...) has built so far
    parsed,       \* indices of the records handed to JSON.parse, in call order
    validated,    \* validateLambdaSnsEventMessageFormat returned without throwing
    innerOutcome, \* how the getRecordBodies call inside getFirstRecordBody ended
    snsOutcome,   \* how the caller's call ended
    lsArgs,       \* listBucket's arguments as the caller gave them
    stack,        \* the listBucket activations, the outermost first
    requests,     \* the listObjectsV2 parameters sent, in order
    inflight,     \* indices of the requests whose promise has not settled
    delivered,    \* the pages the backend has resolved requests with, in order
    rejection,    \* the error the backend rejected a request with (NoError: none)
    lsOutcome,    \* how the caller's listBucket call ended
    revision,     \* which revision of the S3 helper file is loaded
    store,        \* the backend's objects: a body per bucket and key
    lastJson,     \* per bucket and key, the value whose serialization was written last
    stOp,         \* the last object call: its name, arguments and the backend's answer
    stOutcome     \* how that call ended

snsVars == <<snsOp, snsEvent, snsPc, bodies, parsed, validated, innerOutcome, snsOutcome>>
listVars == <<lsArgs, stack, requests, inflight, delivered, rejection, lsOutcome>>
storeVars == <<revision, store, lastJson, stOp, stOutcome>>
vars == <<snsVars, listVars, storeVars>>
notSns == <<listVars, storeVars>>
notList == <<snsVars, storeVars>>
notStore == <<snsVars, listVars>>

----------------------------------------------------------------------------
(* JavaScript values as decoded from JSON: one record shape for every kind. *)

Undefined == [t |-> "undefined", n |-> 0, s |-> "", kids |-> <<>>]
Null == [t |-> "null", n |-> 0, s |-> "", kids |-> <<>>]
Bool(b) == [t |-> "bool", n |-> IF b THEN 1 ELSE 0, s |-> "", kids |-> <<>>]
Num(n) == [t |-> "num", n |-> n, s |-> "", kids |-> <<>>]
Str(s) == [t |-> "str", n |-> 0, s |-> s, kids |-> <<>>]
Arr(items) == [t |-> "arr", n |-> 0, s |-> "", kids |-> items]
Member(k, v) == [t |-> "member", n |-> 0, s |-> k, kids |-> <<v>>]
Obj(members) == [t |-> "obj", n |-> 0, s |-> "", kids |-> members]

\* The numbers and the strings (object keys, string values) of the JSON texts used.
NumAtoms == {0 - 1, 0, 1, 2}
StrAtoms == {"", "test", "test2", "2"}

Quote(s) == "\"" \o s \o "\""
NumTokens == {ToString(n) : n \in NumAtoms}
StrTokens == {Quote(s) : s \in StrAtoms}
NumOf(tok) == CHOOSE n \in NumAtoms : ToString(n) = tok
StrOf(tok) == CHOOSE s \in StrAtoms : Quote(s) = tok

\* An object's members after key k is set to v: a repeated key keeps its place
\* and takes the later value.
SetMember(members, k, v) ==
    IF \E i \in 1..Len(members) : members[i].s = k
    THEN [i \in 1..Len(members) |->
            IF members[i].s = k THEN Member(k, v) ELSE members[i]]
    ELSE Append(members, Member(k, v))

ParseFail == [ok |-> FALSE, v |-> Undefined, rest |-> <<>>]
ParseOk(v, rest) == [ok |-> TRUE, v |-> v, rest |-> rest]

RECURSIVE ParseValue(_), ParseElements(_, _), ParseMembers(_, _)

\* One JSON value from the front of a token sequence.
ParseValue(toks) ==
    IF toks = <<>> THEN ParseFail
    ELSE LET h == Head(toks)
             r == Tail(toks)
         IN  CASE h = "null" -> ParseOk(Null, r)
               [] h = "true" -> ParseOk(Bool(TRUE), r)
               [] h = "false" -> ParseOk(Bool(FALSE), r)
               [] h \in NumTokens -> ParseOk(Num(NumOf(h)), r)
               [] h \in StrTokens -> ParseOk(Str(StrOf(h)), r)
               [] h = "[" ->
                    IF r # <<>> /\ Head(r) = "]"
                    THEN ParseOk(Arr(<<>>), Tail(r))
                    ELSE ParseElements(r, <<>>)
               [] h = "{" ->
                    IF r # <<>> /\ Head(r) = "}"
                    THEN ParseOk(Obj(<<>>), Tail(r))
                    ELSE ParseMembers(r, <<>>)
               [] OTHER -> ParseFail

\* value ("," value)* "]"
ParseElements(toks, acc) ==
    LET e == ParseValue(toks)
    IN  IF ~e.ok \/ e.rest = <<>> THEN ParseFail
        ELSE CASE Head(e.rest) = "]" -> ParseOk(Arr(Append(acc, e.v)), Tail(e.rest))
               [] Head(e.rest) = "," -> ParseElements(Tail(e.rest), Append(acc, e.v))
               [] OTHER -> ParseFail

\* string ":" value ("," string ":" value)* "}"
ParseMembers(toks, acc) ==
    IF Len(toks) < 3 \/ Head(toks) \notin StrTokens \/ toks[2] # ":" THEN ParseFail
    ELSE LET k == StrOf(Head(toks))
             e == ParseValue(Tail(Tail(toks)))
         IN  IF ~e.ok \/ e.rest = <<>> THEN ParseFail
             ELSE CASE Head(e.rest) = "}" ->
                         ParseOk(Obj(SetMember(acc, k, e.v)), Tail(e.rest))
                    [] Head(e.rest) = "," ->
                         ParseMembers(Tail(e.rest), SetMember(acc, k, e.v))
                    [] OTHER -> ParseFail

\* JSON.parse(text): the value, or a SyntaxError when the text is not one JSON value.
JSONParse(text) ==
    LET r == ParseValue(text)
    IN  IF r.ok /\ r.rest = <<>> THEN [ok |-> TRUE, v |-> r.v]
        ELSE [ok |-> FALSE, v |-> Undefined]

RECURSIVE JSONStringify(_), StringifyKids(_, _)

\* The comma-separated texts of an array's elements or an object's members.
StringifyKids(kids, i) ==
    IF i > Len(kids) THEN <<>>
    ELSE LET k == kids[i]
             one == IF k.t = "member"
                    THEN <<Quote(k.s), ":">> \o JSONStringify(k.kids[1])
                    ELSE JSONStringify(k)
         IN  (IF i > 1 THEN <<",">> ELSE <<>>) \o one \o StringifyKids(kids, i + 1)

\* JSON.stringify(v, null, 0) of a JSON-representable value.
JSONStringify(v) ==
    CASE v.t = "null" -> <<"null">>
      [] v.t = "bool" -> IF v.n = 1 THEN <<"true">> ELSE <<"false">>
      [] v.t = "num" -> <<ToString(v.n)>>
      [] v.t = "str" -> <<Quote(v.s)>>
      [] v.t = "arr" -> <<"[">> \o StringifyKids(v.kids, 1) \o <<"]">>
      [] v.t = "obj" -> <<"{">> \o StringifyKids(v.kids, 1) \o <<"}">>

----------------------------------------------------------------------------
(* SNS events.  Of a JavaScript value the code observes its truthiness,    *)
(* whether it is an array, its Records property and the array's elements,  *)
(* so a value is its kind plus, for an array, its elements.                *)

\* Kinds of JavaScript values; the first five are the falsy ones.
FalsyKinds == {"undefined", "null", "false", "zero", "emptyString"}
NonArrayTruthyKinds == {"string", "object"}
Kinds == FalsyKinds \cup NonArrayTruthyKinds \cup {"array"}

Truthy(x) == x.t \notin FalsyKinds
IsArray(x) == x.t = "array"
\* undefined or null: the value is absent.
Nullish(x) == x.t \in {"undefined", "null"}

\* The Message strings of the records: the body of the package's example event,
\* two more JSON texts, and three strings that are not JSON.
MsgExample == <<"{", Quote("test"), ":", "1", ",", Quote("test2"), ":", Quote("2"), "}">>
MsgSecond == <<"{", Quote("test2"), ":", Quote("2"), "}">>
MsgArray == <<"[", "1", ",", "null", "]">>
MsgTruncated == <<"{", Quote("test"), ":">>
MsgPlain == <<"hello">>
MsgEmpty == <<>>
Messages == {MsgExample, MsgSecond, MsgArray, MsgTruncated, MsgPlain, MsgEmpty}

\* A record as the event source delivers it: { Sns: { Message: <string> } }.
SnsRecords == [Sns : [Message : Messages]]
RecordLists == UNION {[1..k -> SnsRecords] : k \in 0..MaxRecords}

\* The values a Records property can hold: any non-array kind, or an array of records.
Plain(kind) == [t |-> kind, items |-> <<>>]
RecordsValues ==
    {Plain(k) : k \in Kinds \ {"array"}} \cup {[t |-> "array", items |-> l] : l \in RecordLists}

\* The values an event can be: a primitive (no own Records), or an object (or array)
\* with or without a Records property.
SnsEvents ==
    {[t |-> k, Records |-> Plain("undefined")] : k \in Kinds}
        \cup {[t |-> "object", Records |-> r] : r \in RecordsValues}

NoError == [name |-> "", message |-> ""]
Error(msg) == [name |-> "Error", message |-> msg]
SyntaxError == [name |-> "SyntaxError", message |-> "Unexpected token"]

\* A variant of the validation that tests Array.isArray before it tests that Records
\* is there.
ValidateArrayCheckFirst(e) ==
    IF ~Truthy(e) THEN Error("No event.")
    ELSE IF ~IsArray(e.Records) THEN Error("Records property is not an array.")
    ELSE IF ~Truthy(e.Records)
    THEN Error("No Records array found, malformed sns event message.")
    ELSE IF Len(e.Records.items) < 1 THEN Error("Records array is empty.")
    ELSE NoError

\* validateLambdaSnsEventMessageFormat: the error it throws, NoError when it returns.
ValidateLambdaSnsEventMessageFormat(e) ==
    IF ~Truthy(e) THEN Error("No event.")
    ELSE IF ~Truthy(e.Records)
    THEN Error("No Records array found, malformed sns event message.")
    ELSE IF ~IsArray(e.Records) THEN Error("Records property is not an array.")
    ELSE IF Len(e.Records.items) < 1 THEN Error("Records array is empty.")
    ELSE NoError

\* How a call ended.
Pending == [kind |-> "pending", error |-> NoError, list |-> <<>>, value |-> Undefined]
Threw(err) == [kind |-> "throw", error |-> err, list |-> <<>>, value |-> Undefined]
ReturnedList(l) == [kind |-> "returnList", error |-> NoError, list |-> l, value |-> Undefined]
ReturnedValue(v) == [kind |-> "returnValue", error |-> NoError, list |-> <<>>, value |-> v]

\* r => JSON.parse(r.Sns.Message), the callback of Records.map.
ParseRecord(r) == JSONParse(r.Sns.Message)

\* A variant of the map that builds its array back to front.
MapStepPrepend(soFar, r) ==
    LET p == ParseRecord(r)
    IN  IF p.ok THEN [threw |-> FALSE, soFar |-> <<p.v>> \o soFar]
        ELSE [threw |-> TRUE, soFar |-> soFar]

\* A variant of the map that catches the SyntaxError and leaves the record out.
MapStepSkipMalformed(soFar, r) ==
    LET p == ParseRecord(r)
    IN  IF p.ok THEN [threw |-> FALSE, soFar |-> Append(soFar, p.v)]
        ELSE [threw |-> FALSE, soFar |-> soFar]

\* The callback's effect on the map in progress: the element is appended, or the
\* SyntaxError leaves map and the method.
MapStep(soFar, r) ==
    LET p == ParseRecord(r)
    IN  IF p.ok THEN [threw |-> FALSE, soFar |-> Append(soFar, p.v)]
        ELSE [threw |-> TRUE, soFar |-> soFar]

\* A variant of getFirstRecordBody that returns the last body.
FirstOfTakesLast(b) == IF Len(b) > 0 THEN ReturnedValue(b[Len(b)]) ELSE ReturnedValue(Undefined)

\* getFirstRecordBody after getRecordBodies returned b.
FirstOf(b) == IF Len(b) > 0 THEN ReturnedValue(b[1]) ELSE ReturnedValue(Undefined)

SnsOps == {"validateLambdaSnsEventMessageFormat", "getRecordBodies", "getFirstRecordBody"}

SnsInit ==
    /\ snsOp = "none"
    /\ snsEvent = [t |-> "undefined", Records |-> Plain("undefined")]
    /\ snsPc = "idle"
    /\ bodies = <<>>
    /\ parsed = <<>>
    /\ validated = FALSE
    /\ innerOutcome = Pending
    /\ snsOutcome = Pending

\* The caller invokes one of the three static methods.
SnsCall(op, e) ==
    /\ snsPc = "idle"
    /\ snsOp' = op
    /\ snsEvent' = e
    /\ snsPc' = "validate"
    /\ UNCHANGED <<bodies, parsed, validated, innerOutcome, snsOutcome>>
    /\ UNCHANGED notSns

\* Every method starts with the validation; getRecordBodies rethrows its error as is.
SnsValidate ==
    /\ snsPc = "validate"
    /\ LET err == ValidateLambdaSnsEventMessageFormat(snsEvent)
       IN  IF err # NoError
           THEN /\ snsPc' = "done"
                /\ snsOutcome' = Threw(err)
                /\ innerOutcome' =
                      IF snsOp = "getFirstRecordBody" THEN Threw(err) ELSE innerOutcome
                /\ UNCHANGED validated
           ELSE /\ validated' = TRUE
                /\ IF snsOp = "validateLambdaSnsEventMessageFormat"
                   THEN snsPc' = "done" /\ snsOutcome' = ReturnedValue(Undefined)
                   ELSE snsPc' = "map" /\ UNCHANGED snsOutcome
                /\ UNCHANGED innerOutcome
    /\ UNCHANGED <<snsOp, snsEvent, bodies, parsed>>
    /\ UNCHANGED notSns

\* snsEvent.Records.map(r => JSON.parse(r.Sns.Message)), one record per step.
SnsMap ==
    /\ snsPc = "map"
    /\ Len(parsed) < Len(snsEvent.Records.items)
    /\ LET i == Len(parsed) + 1
           m == MapStep(bodies, snsEvent.Records.items[i])
       IN  /\ parsed' = Append(parsed, i)
           /\ bodies' = m.soFar
           /\ IF m.threw
              THEN /\ snsPc' = "done"
                   /\ snsOutcome' = Threw(SyntaxError)
                   /\ innerOutcome' =
                         IF snsOp = "getFirstRecordBody" THEN Threw(SyntaxError)
                         ELSE innerOutcome
              ELSE UNCHANGED <<snsPc, snsOutcome, innerOutcome>>
    /\ UNCHANGED <<snsOp, snsEvent, validated>>
    /\ UNCHANGED notSns

\* map is through: getRecordBodies returns the array.
SnsReturnBodies ==
    /\ snsPc = "map"
    /\ Len(parsed) = Len(snsEvent.Records.items)
    /\ IF snsOp = "getRecordBodies"
       THEN snsPc' = "done" /\ snsOutcome' = ReturnedList(bodies) /\ UNCHANGED innerOutcome
       ELSE snsPc' = "first" /\ innerOutcome' = ReturnedList(bodies) /\ UNCHANGED snsOutcome
    /\ UNCHANGED <<snsOp, snsEvent, bodies, parsed, validated>>
    /\ UNCHANGED notSns

\* getFirstRecordBody: if (bodies.length > 0) return bodies[0];
SnsFirst ==
    /\ snsPc = "first"
    /\ snsPc' = "done"
    /\ snsOutcome' = FirstOf(innerOutcome.list)
    /\ UNCHANGED <<snsOp, snsEvent, bodies, parsed, validated, innerOutcome>>
    /\ UNCHANGED notSns

SnsNext ==
    \/ \E op \in SnsOps, e \in SnsEvents : SnsCall(op, e)
    \/ SnsValidate
    \/ SnsMap
    \/ SnsReturnBodies
    \/ SnsFirst

----------------------------------------------------------------------------
(* S3.listBucket.  An activation runs to its first await in the step that  *)
(* calls it; every later step is the continuation of one settled promise.  *)

Buckets == {"b1", "b2"}
Prefixes == {"", "logs/"}
NoToken == [t |-> "undefined", s |-> ""]
Token(s) == [t |-> IF s = "" THEN "emptyString" ELSE "string", s |-> s]
\* NextContinuationToken as the backend may send it: absent, empty, or a cursor.
NextTokens == {NoToken, Token(""), Token("t1"), Token("t2")}
\* The token the caller may pass: none, or a cursor.
CallerTokens == {NoToken, Token("t1")}
\* Contents as the backend may send it: absent, or an array of object summaries.
ContentsValues ==
    {Plain("undefined")} \cup
        {[t |-> "array", items |-> l] : l \in {<<>>, <<"a">>, <<"b", "a">>}}
Pages == [Contents : ContentsValues, NextContinuationToken : NextTokens]
NoPage == [Contents |-> Plain("undefined"), NextContinuationToken |-> NoToken]
\* What a rejected listObjectsV2 promise carries.
BackendErrors ==
    {[name |-> "AccessDenied", message |-> "Access Denied"],
     [name |-> "SlowDown", message |-> "Please reduce your request rate."]}
ReferenceError == [name |-> "ReferenceError", message |-> "listBucket is not defined"]

\* const params = { Bucket, MaxKeys: 1000, ContinuationToken, Prefix }
ListParams(bucketName, prefix, nextToken) ==
    [Bucket |-> bucketName, MaxKeys |-> MaxKeys,
     ContinuationToken |-> nextToken, Prefix |-> prefix]

\* if (results.Contents) newList = newList.concat(results.Contents);
AfterPage(newList, results) ==
    IF Truthy(results.Contents) THEN newList \o results.Contents.items ELSE newList

\* A variant that stops at a page without Contents.
HasMoreOnlyAfterItems(results) ==
    Truthy(results.NextContinuationToken) /\ Truthy(results.Contents)

\* if (results.NextContinuationToken)
HasMore(results) == Truthy(results.NextContinuationToken)

\* A variant of the recursive call that passes its own nextToken on.
RecursiveParamsSameToken(args, results) ==
    ListParams(args.bucketName, args.prefix, args.nextToken)

\* the parameters of the recursive call
RecursiveParams(args, results) ==
    ListParams(args.bucketName, args.prefix, results.NextContinuationToken)

\* newList = newList.concat(await S3.listBucket(...));
AfterChild(newList, childList) == newList \o childList

\* A variant that catches the error and returns what it has listed so far.
OnRejectedReturnPartial(newList, err) == ReturnedList(newList)

\* What an activation does with the error of the promise it awaits: listBucket has
\* no try/catch, so the activation's own promise rejects with the same error.
OnRejected(newList, err) == Threw(err)

Frame(st) == [newList |-> <<>>, st |-> st, results |-> NoPage, child |-> <<>>, error |-> NoError]
Top == stack[Len(stack)]
Below == SubSeq(stack, 1, Len(stack) - 1)

ListInit ==
    /\ lsArgs = [bucketName |-> "b1", prefix |-> "", nextToken |-> NoToken]
    /\ stack = <<>>
    /\ requests = <<>>
    /\ inflight = {}
    /\ delivered = <<>>
    /\ rejection = NoError
    /\ lsOutcome = Pending

\* The activation on top settles with outcome o: the caller's promise when it is
\* the outermost one, else the promise its parent awaits.
Settle(o) ==
    IF Len(stack) = 1
    THEN stack' = <<>> /\ lsOutcome' = o
    ELSE /\ stack' = [Below EXCEPT ![Len(stack) - 1] =
                        IF o.kind = "throw"
                        THEN [@ EXCEPT !.st = "childThrew", !.error = o.error]
                        ELSE [@ EXCEPT !.st = "childDone", !.child = o.list]]
         /\ UNCHANGED lsOutcome

\* The caller calls S3.listBucket(bucketName, prefix, nextToken): the activation
\* builds params, sends the request and awaits it.
ListBucketCall(bucketName, prefix, nextToken) ==
    /\ stack = <<>> /\ lsOutcome = Pending /\ requests = <<>>
    /\ lsArgs' = [bucketName |-> bucketName, prefix |-> prefix, nextToken |-> nextToken]
    /\ stack' = <<Frame("awaitPage")>>
    /\ requests' = <<ListParams(bucketName, prefix, nextToken)>>
    /\ inflight' = {1}
    /\ UNCHANGED <<delivered, rejection, lsOutcome>>
    /\ UNCHANGED notList

\* The backend resolves the outstanding request with a page.
BackendRespond(page) ==
    /\ stack # <<>> /\ Top.st = "awaitPage" /\ inflight # {}
    /\ inflight' = {}
    /\ delivered' = Append(delivered, page)
    /\ stack' = [stack EXCEPT ![Len(stack)] = [@ EXCEPT !.st = "havePage", !.results = page]]
    /\ UNCHANGED <<lsArgs, requests, rejection, lsOutcome>>
    /\ UNCHANGED notList

\* The backend rejects the outstanding request with an error.
BackendReject(err) ==
    /\ stack # <<>> /\ Top.st = "awaitPage" /\ inflight # {}
    /\ inflight' = {}
    /\ rejection' = err
    /\ stack' = [stack EXCEPT ![Len(stack)] = [@ EXCEPT !.st = "pageThrew", !.error = err]]
    /\ UNCHANGED <<lsArgs, requests, delivered, lsOutcome>>
    /\ UNCHANGED notList

\* The activation resumes with its page: it appends Contents, then either calls
\* S3.listBucket with the next token (which sends the next request) or returns.
Continue ==
    /\ stack # <<>> /\ Top.st = "havePage"
    /\ LET newList == AfterPage(Top.newList, Top.results)
       IN  IF HasMore(Top.results)
           THEN /\ Len(requests) < MaxRequests
                /\ stack' = Append([stack EXCEPT ![Len(stack)] =
                                      [@ EXCEPT !.st = "awaitChild", !.newList = newList]],
                                   Frame("awaitPage"))
                /\ requests' = Append(requests, RecursiveParams(lsArgs, Top.results))
                /\ inflight' = inflight \cup {Len(requests) + 1}
                /\ UNCHANGED lsOutcome
           ELSE /\ Settle(ReturnedList(newList))
                /\ UNCHANGED <<requests, inflight>>
    /\ UNCHANGED <<lsArgs, delivered, rejection>>
    /\ UNCHANGED notList

\* The activation resumes with its child's list: it appends it and returns.
Resume ==
    /\ stack # <<>> /\ Top.st = "childDone"
    /\ Settle(ReturnedList(AfterChild(Top.newList, Top.child)))
    /\ UNCHANGED <<lsArgs, requests, inflight, delivered, rejection>>
    /\ UNCHANGED notList

\* The awaited promise rejected: the await throws inside the activation.
Propagate ==
    /\ stack # <<>> /\ Top.st \in {"pageThrew", "childThrew"}
    /\ Settle(OnRejected(Top.newList, Top.error))
    /\ UNCHANGED <<lsArgs, requests, inflight, delivered, rejection>>
    /\ UNCHANGED notList

ListNext ==
    \/ \E b \in Buckets, p \in Prefixes, t \in CallerTokens : ListBucketCall(b, p, t)
    \/ \E page \in Pages : BackendRespond(page)
    \/ \E err \in BackendErrors : BackendReject(err)
    \/ Continue
    \/ Resume
    \/ Propagate

\* The revision of the file whose recursive call names listBucket without its class:
\* the name is unbound, so evaluating the call throws a ReferenceError.
ContinueUnqualified ==
    /\ stack # <<>> /\ Top.st = "havePage"
    /\ LET newList == AfterPage(Top.newList, Top.results)
       IN  IF HasMore(Top.results)
           THEN Settle(Threw(ReferenceError))
           ELSE Settle(ReturnedList(newList))
    /\ UNCHANGED <<lsArgs, requests, inflight, delivered, rejection>>
    /\ UNCHANGED notList

ListNextUnqualified ==
    \/ \E b \in Buckets, p \in Prefixes, t \in CallerTokens : ListBucketCall(b, p, t)
    \/ \E page \in Pages : BackendRespond(page)
    \/ \E err \in BackendErrors : BackendReject(err)
    \/ ContinueUnqualified
    \/ Propagate

----------------------------------------------------------------------------
(* Objects: putJSONObject, putStringObject and getJSONObject against a     *)
(* backend that keeps one body per bucket and key.  getJSONObject is       *)
(* called with the default encoding, under which Body.toString gives back  *)
(* the string that was put.                                                *)

Revisions == {"s3.js", "part_001"}
Keys == {"k1", "k2"}
\* The objects the calls name: two keys of one bucket, and one key shared by both.
Slots == (Buckets \X Keys) \ {<<"b2", "k2">>}
NoObject == [present |-> FALSE, text |-> <<>>]
NoJson == [has |-> FALSE, v |-> Undefined]

\* The values handed to putJSONObject.
Composite ==
    Obj(<<Member("test", Arr(<<Num(1), Null, Bool(TRUE), Str("")>>)), Member("test2", Obj(<<>>))>>)
Values == {Num(0 - 1), Str("test"), Composite}
\* The strings handed to putStringObject: not JSON, and the empty string.
PutStrings == {MsgPlain, MsgEmpty}
\* additionalParams as the caller may give it: left out (the default {}), or an
\* empty array.
AdditionalParams == {"default", "emptyArray"}
\* Spread in an argument list iterates its operand; a plain object is not iterable.
Iterable(ap) == ap = "emptyArray"
TypeError ==
    [name |-> "TypeError",
     message |-> "Spread syntax requires ...iterable[Symbol.iterator] to be a function"]

Ack == [kind |-> "ack", error |-> NoError, list |-> <<>>, value |-> Undefined]

\* The message of a rejected getObject: the backend's, or the SDK's own when it
\* could not read the response.
BackendMessages == {"Access Denied", "The specified key does not exist.", SyntaxError.message}
Texts == {JSONStringify(Composite)} \cup PutStrings
GetResponses ==
    {[settled |-> "reject", message |-> m, file |-> Plain("undefined"),
      Body |-> [t |-> "undefined", text |-> <<>>]] : m \in BackendMessages}
    \cup {[settled |-> "resolve", message |-> "", file |-> Plain("undefined"),
           Body |-> [t |-> "undefined", text |-> <<>>]]}
    \cup {[settled |-> "resolve", message |-> "", file |-> Plain("object"),
           Body |-> [t |-> k, text |-> <<>>]] : k \in {"undefined", "emptyString"}}
    \cup {[settled |-> "resolve", message |-> "", file |-> Plain("object"),
           Body |-> [t |-> "buffer", text |-> x]] : x \in Texts}
NoResponse ==
    [settled |-> "none", message |-> "", file |-> Plain("undefined"),
     Body |-> [t |-> "undefined", text |-> <<>>]]

\* What the backend answers a getObject from its store.
Served(slot) ==
    IF store[slot].present
    THEN [settled |-> "resolve", message |-> "", file |-> Plain("object"),
          Body |-> [t |-> "buffer", text |-> store[slot].text]]
    ELSE [settled |-> "reject", message |-> "The specified key does not exist.",
          file |-> Plain("undefined"), Body |-> [t |-> "undefined", text |-> <<>>]]

FailedGetting == "Failed getting object from S3: "

\* A variant of getJSONObject with JSON.parse outside the try block.
GetJSONObjectParseOutsideTry(resp) ==
    IF resp.settled = "reject" THEN Threw(Error(FailedGetting \o resp.message))
    ELSE IF Truthy(resp.file) /\ Truthy(resp.Body)
    THEN LET p == JSONParse(resp.Body.text)
         IN  IF p.ok THEN ReturnedValue(p.v) ELSE Threw(SyntaxError)
    ELSE Threw(Error("No content."))

\* getJSONObject once the getObject promise has settled with resp.
GetJSONObjectOutcome(resp) ==
    IF resp.settled = "reject" THEN Threw(Error(FailedGetting \o resp.message))
    ELSE IF Truthy(resp.file) /\ Truthy(resp.Body)
    THEN LET p == JSONParse(resp.Body.text)
         IN  IF p.ok THEN ReturnedValue(p.v)
             ELSE Threw(Error(FailedGetting \o SyntaxError.message))
    ELSE Threw(Error("No content."))

\* putJSONObject(bucketName, key, dataObject, metadata, additionalParams): the string
\* it hands to putStringObject, or the error evaluating the call's arguments throws.
PutJSONObjectArgs(rev, dataObject, ap) ==
    IF rev = "part_001" /\ ~Iterable(ap)
    THEN [threw |-> TRUE, text |-> <<>>]
    ELSE [threw |-> FALSE, text |-> JSONStringify(dataObject)]

NoOp ==
    [name |-> "none", bucket |-> "", key |-> "", value |-> Undefined, text |-> <<>>,
     ap |-> "default", served |-> FALSE, resp |-> NoResponse]

StoreInit ==
    /\ store = [slot \in Slots |-> NoObject]
    /\ lastJson = [slot \in Slots |-> NoJson]
    /\ stOp = NoOp
    /\ stOutcome = Pending

\* putStringObject(bucketName, key, dataString): s3.putObject with Body: dataString.
PutStringObject(b, k, dataString) ==
    /\ store' = [store EXCEPT ![<<b, k>>] = [present |-> TRUE, text |-> dataString]]
    /\ lastJson' = [lastJson EXCEPT ![<<b, k>>] = NoJson]
    /\ stOp' = [NoOp EXCEPT !.name = "putStringObject", !.bucket = b, !.key = k,
                            !.text = dataString]
    /\ stOutcome' = Ack
    /\ UNCHANGED revision
    /\ UNCHANGED notStore

\* putJSONObject(bucketName, key, dataObject, metadata, additionalParams)
PutJSONObject(b, k, dataObject, ap) ==
    /\ LET a == PutJSONObjectArgs(revision, dataObject, ap)
       IN  /\ stOp' = [NoOp EXCEPT !.name = "putJSONObject", !.bucket = b, !.key = k,
                                   !.value = dataObject, !.text = a.text, !.ap = ap]
           /\ IF a.threw
              THEN stOutcome' = Threw(TypeError) /\ UNCHANGED <<store, lastJson>>
              ELSE /\ stOutcome' = Ack
                   /\ store' = [store EXCEPT ![<<b, k>>] = [present |-> TRUE, text |-> a.text]]
                   /\ lastJson' = [lastJson EXCEPT ![<<b, k>>] = [has |-> TRUE, v |-> dataObject]]
    /\ UNCHANGED revision
    /\ UNCHANGED notStore

\* getJSONObject(bucketName, key) with the backend answering from its store.
GetJSONObjectServed(b, k) ==
    /\ stOp' = [NoOp EXCEPT !.name = "getJSONObject", !.bucket = b, !.key = k,
                            !.served = TRUE, !.resp = Served(<<b, k>>)]
    /\ stOutcome' = GetJSONObjectOutcome(Served(<<b, k>>))
    /\ UNCHANGED <<revision, store, lastJson>>
    /\ UNCHANGED notStore

\* getJSONObject(bucketName, key) with the getObject promise settling in any way.
GetJSONObjectAny(b, k, resp) ==
    /\ stOp' = [NoOp EXCEPT !.name = "getJSONObject", !.bucket = b, !.key = k, !.resp = resp]
    /\ stOutcome' = GetJSONObjectOutcome(resp)
    /\ UNCHANGED <<revision, store, lastJson>>
    /\ UNCHANGED notStore

StoreNext ==
    \/ \E <<b, k>> \in Slots, x \in PutStrings : PutStringObject(b, k, x)
    \/ \E <<b, k>> \in Slots, v \in Values, ap \in AdditionalParams :
          PutJSONObject(b, k, v, ap)
    \/ \E <<b, k>> \in Slots : GetJSONObjectServed(b, k)
    \/ \E <<b, k>> \in Slots, resp \in GetResponses : GetJSONObjectAny(b, k, resp)

----------------------------------------------------------------------------
Init == SnsInit /\ ListInit /\ StoreInit /\ revision = "s3.js"
\* Either revision of the S3 helper file may be the one loaded.
InitStore == SnsInit /\ ListInit /\ StoreInit /\ revision \in Revisions

\* S3.listBucket as in packages/s3/lib/s3.js.
Spec == Init /\ [][ListNext]_vars
\* The same with the steps of a call that is under way scheduled.
FairSpec == Spec /\ WF_vars(Continue) /\ WF_vars(Resume) /\ WF_vars(Propagate)
\* S3.listBucket as in the revision with the unqualified recursive call.
SpecUnqualified == Init /\ [][ListNextUnqualified]_vars
\* The SNS helpers.
SpecSns == Init /\ [][SnsNext]_vars
\* The object helpers, in either revision of the file.
SpecStore == InitStore /\ [][StoreNext]_vars

----------------------------------------------------------------------------
(* The SNS helpers: validate, getAllBodies, getFirstBody.                  *)

ValidMessages == {MsgExample, MsgSecond, MsgArray}
\* The values the JSON texts of ValidMessages denote.
Decoded(m) ==
    CASE m = MsgExample -> Obj(<<Member("test", Num(1)), Member("test2", Str("2"))>>)
      [] m = MsgSecond -> Obj(<<Member("test2", Str("2"))>>)
      [] m = MsgArray -> Arr(<<Num(1), Null>>)

Items == snsEvent.Records.items
\* The envelope is there and its Records is a non-empty array.
WellFormed == Truthy(snsEvent) /\ IsArray(snsEvent.Records) /\ Len(Items) >= 1
Malformed(i) == Items[i].Sns.Message \notin ValidMessages
AllBodiesValid == \A i \in 1..Len(Items) : ~Malformed(i)
FirstMalformed == CHOOSE i \in 1..Len(Items) : Malformed(i) /\ \A j \in 1..(i - 1) : ~Malformed(j)
ValidateDone == snsOp = "validateLambdaSnsEventMessageFormat" /\ snsPc = "done"
AllBodiesDone == snsOp = "getRecordBodies" /\ snsPc = "done"
FirstBodyDone == snsOp = "getFirstRecordBody" /\ snsPc = "done"

\* C2 as stated: the four checks in order, where the envelope is absent when it is
\* no object at all (any falsy value), and it has no Records field when that is
\* undefined or null;
\* the error is that of the first clause that fails, and validate succeeds exactly
\* when the envelope is present and Records is a non-empty array.
C2_AsStated ==
    ValidateDone =>
        snsOutcome =
            IF ~Truthy(snsEvent) THEN Threw(Error("No event."))
            ELSE IF Nullish(snsEvent.Records)
            THEN Threw(Error("No Records array found, malformed sns event message."))
            ELSE IF ~IsArray(snsEvent.Records)
            THEN Threw(Error("Records property is not an array."))
            ELSE IF Len(Items) = 0 THEN Threw(Error("Records array is empty."))
            ELSE ReturnedValue(Undefined)

\* C2, amended: the first two checks test truthiness.  A falsy envelope (undefined,
\* null, false, 0, "") fails with 'No event.'; else a falsy Records (missing, null,
\* false, 0, "") fails with the 'No Records array' message; else a Records that is
\* not an array fails with 'Records property is not an array.'; else an empty array
\* fails with 'Records array is empty.'; validate succeeds exactly when the envelope
\* is present and Records is a non-empty array.
C2_ValidationOrder ==
    ValidateDone =>
        /\ ~Truthy(snsEvent) => snsOutcome = Threw(Error("No event."))
        /\ Truthy(snsEvent) /\ ~Truthy(snsEvent.Records) =>
              snsOutcome = Threw(Error("No Records array found, malformed sns event message."))
        /\ Truthy(snsEvent) /\ Truthy(snsEvent.Records) /\ ~IsArray(snsEvent.Records) =>
              snsOutcome = Threw(Error("Records property is not an array."))
        /\ Truthy(snsEvent) /\ IsArray(snsEvent.Records) /\ Len(Items) = 0 =>
              snsOutcome = Threw(Error("Records array is empty."))
        /\ snsOutcome.kind # "throw" <=> WellFormed
        /\ snsOutcome.kind # "throw" => snsOutcome = ReturnedValue(Undefined)

\* validate has rejected an envelope whose Records is there but falsy.
C2_Witness ==
    /\ ValidateDone
    /\ snsEvent.t = "object" /\ snsEvent.Records.t = "emptyString"
    /\ snsOutcome = Threw(Error("No Records array found, malformed sns event message."))

\* C3: for a well-formed envelope whose bodies are all JSON, getRecordBodies returns
\* an array as long as Records whose i-th element is the value the i-th Message
\* denotes; for any other envelope it throws the error the validation throws for it;
\* and no record is handed to JSON.parse before the validation has passed.
C3_AllBodies ==
    /\ AllBodiesDone /\ WellFormed /\ AllBodiesValid =>
          /\ snsOutcome.kind = "returnList"
          /\ Len(snsOutcome.list) = Len(Items)
          /\ \A i \in 1..Len(Items) : snsOutcome.list[i] = Decoded(Items[i].Sns.Message)
    /\ AllBodiesDone /\ ~WellFormed =>
          /\ snsOutcome = Threw(ValidateLambdaSnsEventMessageFormat(snsEvent))
          /\ snsOutcome.error.name = "Error"
          /\ parsed = <<>>
    /\ parsed # <<>> => validated

\* getRecordBodies has returned the two bodies of a two-record envelope, in order.
C3_Witness ==
    /\ AllBodiesDone /\ WellFormed /\ Len(Items) = 2
    /\ Items[1].Sns.Message = MsgExample /\ Items[2].Sns.Message = MsgSecond
    /\ snsOutcome.kind = "returnList"

\* C4: for a well-formed envelope with a body that is not JSON, getRecordBodies
\* throws the SyntaxError of the first such record: the records before it, and no
\* record after it, were handed to JSON.parse, and nothing is returned.
C4_FirstMalformedAborts ==
    WellFormed /\ ~AllBodiesValid /\ snsOp = "getRecordBodies" =>
        /\ Len(parsed) <= FirstMalformed
        /\ \A i \in 1..Len(parsed) : parsed[i] = i
        /\ snsPc = "done" =>
              /\ snsOutcome = Threw(SyntaxError)
              /\ snsOutcome.list = <<>>
              /\ Len(parsed) = FirstMalformed

\* getRecordBodies has thrown at the second record, after the first was decoded.
C4_Witness ==
    /\ AllBodiesDone /\ WellFormed /\ Len(Items) = 2
    /\ ~Malformed(1) /\ Malformed(2)
    /\ bodies # <<>>
    /\ snsOutcome.kind = "throw"

\* What getRecordBodies ends with, by C2, C3 and C4.
AllBodiesExpected ==
    IF ~WellFormed THEN Threw(ValidateLambdaSnsEventMessageFormat(snsEvent))
    ELSE IF ~AllBodiesValid THEN Threw(SyntaxError)
    ELSE ReturnedList([i \in 1..Len(Items) |-> Decoded(Items[i].Sns.Message)])

\* C5: getFirstRecordBody ends as getRecordBodies followed by taking element 0: with
\* the same error when getRecordBodies throws, else with the first record's decoded
\* body; it never returns undefined, as the array is never empty.
C5_FirstBody ==
    FirstBodyDone =>
        /\ innerOutcome = AllBodiesExpected
        /\ innerOutcome.kind = "throw" => snsOutcome = innerOutcome
        /\ innerOutcome.kind = "returnList" =>
              /\ Len(innerOutcome.list) >= 1
              /\ snsOutcome = ReturnedValue(innerOutcome.list[1])
              /\ snsOutcome.value = Decoded(Items[1].Sns.Message)
        /\ snsOutcome.kind = "returnValue" => snsOutcome.value # Undefined

\* getFirstRecordBody has returned the first of two different bodies.
C5_Witness ==
    /\ FirstBodyDone /\ WellFormed /\ Len(Items) = 2
    /\ Items[1].Sns.Message = MsgExample /\ Items[2].Sns.Message = MsgArray
    /\ snsOutcome.kind = "returnValue"

----------------------------------------------------------------------------
(* S3.listBucket (listAll).                                                *)

RECURSIVE Flatten(_)
\* The items of a sequence of pages, page after page; a page without Contents has none.
Flatten(pages) ==
    IF pages = <<>> THEN <<>>
    ELSE (IF pages[1].Contents.t = "array" THEN pages[1].Contents.items ELSE <<>>)
             \o Flatten(Tail(pages))

\* The page carries a next-continuation-token (a non-empty one).
CarriesToken(page) == page.NextContinuationToken.t = "string"
Rejected == rejection # NoError
FreshCall == requests # <<>> /\ lsArgs.nextToken = NoToken
LastDelivered == delivered[Len(delivered)]

\* C1: a listBucket call without a continuation token, against a backend that
\* answers every request with a page, does not fail, and what it returns is the
\* items of the pages fetched, page after page, each item once and in the backend's
\* order: an array (empty when no page has an item), the fetch having ended at a
\* page without next-token.
C1_ListAllConcatenates ==
    FreshCall /\ ~Rejected =>
        /\ lsOutcome.kind # "throw"
        /\ lsOutcome.kind # "pending" =>
              /\ lsOutcome = ReturnedList(Flatten(delivered))
              /\ ~CarriesToken(LastDelivered)

\* A fresh call has returned the items of three pages.
C1_Witness ==
    /\ FreshCall /\ lsOutcome.kind = "returnList"
    /\ Len(delivered) = 3
    /\ Len(lsOutcome.list) >= 4

\* After a rejection the rejected request stays the last one made, and the call
\* can end only by failing with the backend's error, returning nothing.
RejectionIsFinal ==
    Rejected =>
        /\ inflight = {}
        /\ Len(requests) = Len(delivered) + 1
        /\ lsOutcome.kind \in {"pending", "throw"}
        /\ lsOutcome.kind = "throw" => lsOutcome = Threw(rejection) /\ lsOutcome.list = <<>>
        /\ stack = <<>> => lsOutcome.kind = "throw"

\* C6: once the backend has rejected the fetch of page k, that request is the last
\* one made (no retry, no later page), and the caller's call fails with the
\* backend's error, returning none of the items of pages 1..k-1.
C6_ErrorPropagates ==
    /\ []RejectionIsFinal
    /\ Rejected ~> (lsOutcome = Threw(rejection))

\* The call has failed at its third page, after two pages with items were fetched.
C6_Witness ==
    /\ Rejected /\ lsOutcome.kind = "throw"
    /\ Len(delivered) = 2
    /\ Flatten(delivered) # <<>>

\* The requests form a sequential chain with the caller's bucket, prefix and
\* max-items 1000 in each.
SequentialChain ==
    /\ Cardinality(inflight) <= 1
    /\ inflight \subseteq {Len(requests)}
    /\ Len(requests) <= Len(delivered) + 1
    /\ requests # <<>> => requests[1].ContinuationToken = lsArgs.nextToken
    /\ \A i \in 2..Len(requests) :
          requests[i].ContinuationToken = delivered[i - 1].NextContinuationToken
    /\ \A i \in 1..Len(requests) :
          /\ requests[i].Bucket = lsArgs.bucketName
          /\ requests[i].Prefix = lsArgs.prefix
          /\ requests[i].MaxKeys = 1000

\* C9 as stated: the requests form a sequential chain (the first with the caller's
\* token, each later one with the token of the page before, one outstanding at a
\* time, the same bucket, prefix and max-items 1000), and no token is requested twice.
C9_AsStated ==
    /\ SequentialChain
    /\ \A i, j \in 1..Len(requests) :
          i < j => requests[i].ContinuationToken # requests[j].ContinuationToken

\* C9, amended: the requests form a sequential chain as stated, and every page's
\* next-token is requested at most once; a token is requested twice only when the
\* backend hands the same next-token out again.
C9_SequentialChain ==
    /\ SequentialChain
    /\ \A i, j \in 1..Len(requests) :
          i < j /\ requests[i].ContinuationToken = requests[j].ContinuationToken =>
              delivered[j - 1].NextContinuationToken = requests[i].ContinuationToken

\* The third request is out, carrying the second page's token, which the first
\* page carried too.
C9_Witness ==
    /\ Len(requests) = 3 /\ inflight = {3}
    /\ delivered[1].NextContinuationToken = Token("t1")
    /\ delivered[2].NextContinuationToken = Token("t1")
    /\ requests[3].ContinuationToken = Token("t1")

\* The walk is where only a page without next-token ends it: every page before the
\* last carried a token, and the call has returned only if the last one carried none,
\* after as many requests as pages.
WalkEndsAtTokenlessPage ==
    /\ \A i \in 1..(Len(delivered) - 1) : CarriesToken(delivered[i])
    /\ lsOutcome.kind = "returnList" =>
          /\ delivered # <<>>
          /\ ~CarriesToken(LastDelivered)
          /\ Len(requests) = Len(delivered)

\* C10: listBucket returns exactly when the backend delivers a page without
\* next-token: it returns only after such a page, having made one request per page
\* (so it never returns while every page carries a token, and a page with a token
\* but no items does not end the walk), and once such a page is delivered it does
\* return; a page that carries a token is followed by the next request.
C10_ReturnsIffTokenlessPage ==
    /\ []WalkEndsAtTokenlessPage
    /\ (delivered # <<>> /\ ~CarriesToken(LastDelivered)) ~> (lsOutcome.kind = "returnList")
    /\ (delivered # <<>> /\ CarriesToken(LastDelivered) /\ Len(requests) < MaxRequests)
          ~> (Len(requests) > Len(delivered))

\* The call has returned after three pages, the second of which had a token and no items.
C10_Witness ==
    /\ lsOutcome.kind = "returnList"
    /\ Len(delivered) = 3
    /\ ~Truthy(delivered[2].Contents) /\ CarriesToken(delivered[2])

----------------------------------------------------------------------------
(* The object helpers: putJSONObject (putJson), getJSONObject (getObjectAsJson). *)

OpSlot == <<stOp.bucket, stOp.key>>
GetDone == stOp.name = "getJSONObject"
\* Why a getJSONObject call cannot return a value: the backend call failed, the
\* read brought no body, or the body is not JSON ("none": it can).
Cause(resp) ==
    IF resp.settled = "reject" THEN "backend"
    ELSE IF resp.file.t # "object" \/ resp.Body.t # "buffer" THEN "empty"
    ELSE IF resp.Body.text \in PutStrings THEN "content"
    ELSE "none"

\* putJSONObject(bucket, key, v) is acknowledged and the backend holds v's
\* serialization; a getJSONObject the backend answers from its store, with no write
\* to the key since, returns v.
RoundTrip ==
    /\ stOp.name = "putJSONObject" /\ stOp.ap = "default" =>
          /\ stOutcome = Ack
          /\ store[OpSlot].present
          /\ JSONParse(store[OpSlot].text) = [ok |-> TRUE, v |-> stOp.value]
    /\ GetDone /\ stOp.served /\ lastJson[OpSlot].has =>
          stOutcome = ReturnedValue(lastJson[OpSlot].v)

\* C7: the round trip of putJson and getObjectAsJson, in whichever revision of the
\* file is loaded.
C7_RoundTrip == RoundTrip

\* The round trip in packages/s3/lib/s3.js, and in the other revision when
\* additionalParams is given as an array.
RoundTripWhereArgumentsEvaluate ==
    /\ revision = "s3.js" => RoundTrip
    /\ stOp.name = "putJSONObject" /\ stOp.ap = "emptyArray" => stOutcome = Ack
    /\ GetDone /\ stOp.served /\ lastJson[OpSlot].has =>
          stOutcome = ReturnedValue(lastJson[OpSlot].v)

\* A value put in packages/s3/lib/s3.js has been read back.
RoundTripWitness ==
    /\ revision = "s3.js" /\ GetDone /\ stOp.served
    /\ lastJson[OpSlot] = [has |-> TRUE, v |-> Composite]
    /\ stOutcome = ReturnedValue(Composite)

\* C8 as stated: the error getJSONObject throws identifies its cause; no two calls
\* that fail for different causes (backend failure, body not JSON, no body) throw
\* the same error.
C8_AsStated ==
    GetDone /\ stOutcome.kind = "throw" =>
        \A other \in GetResponses :
            GetJSONObjectOutcome(other) = stOutcome => Cause(other) = Cause(stOp.resp)

\* C8, amended: getJSONObject throws errors of two shapes, not three.  A read
\* without a body throws Error('No content.'), which never carries the prefix and
\* is thrown for no other cause.  A failed backend call and a body that is not JSON
\* both throw an Error whose message is 'Failed getting object from S3: ' followed
\* by the underlying error's message, so the two are told apart only by that
\* underlying message, and not at all when the messages agree.
C8_ErrorShapes ==
    GetDone =>
        /\ Cause(stOp.resp) = "empty" <=> stOutcome = Threw(Error("No content."))
        /\ Cause(stOp.resp) = "backend" =>
              stOutcome = Threw(Error("Failed getting object from S3: " \o stOp.resp.message))
        /\ Cause(stOp.resp) = "content" =>
              stOutcome = Threw(Error("Failed getting object from S3: " \o SyntaxError.message))
        /\ Cause(stOp.resp) = "none" <=> stOutcome.kind = "returnValue"

\* getJSONObject has thrown, for a body that is not JSON, the error it throws for
\* a failed backend call.
C8_Witness ==
    /\ GetDone /\ Cause(stOp.resp) = "content"
    /\ \E other \in GetResponses :
          Cause(other) = "backend" /\ GetJSONObjectOutcome(other) = stOutcome

====
